---- MODULE Spec2Model ----
(***************************************************************************)
(* Model of the audio-clock-driven compositor `renderVideo`                *)
(* (src/utils/logger.ts, lines 35-210), of the frame sampler               *)
(* `extractFramesFromVideo` with its caller `handleVideoUpload`, of the    *)
(* looping preview `updateSlideshow` / `playAudio` / `pauseAudio`, of      *)
(* `handleGenerateContent` (src/unnamed/part_000) and of the log registry  *)
(* `addLog` / `subscribeToLogs` (src/utils/logger.ts, lines 11-31).  Each  *)
(* of them has its own specification; renders and previews of particular   *)
(* scenarios, the session that leaves the DONE screen and overlapping      *)
(* video uploads have theirs as well.                                      *)
(*                                                                         *)
(* Time is counted in tenths of a second, so that the program's 0.2 s seek *)
(* tolerance, 500 ms settle delay and 5 s default clip length are whole    *)
(* numbers.  Real-valued quantities that the code obtains by division are  *)
(* kept exact as fractions [num, den]; nothing is rounded.                 *)
(***************************************************************************)
EXTENDS Integers, Sequences, FiniteSets, TLC

\* ------------------------------------------------------------------ bounds
MaxAssets == 2
MaxDuration == 2
MaxOvershoot == 1
MaxPreroll == 1
MaxClockStep == 2
MaxLate == 1
MaxChunks == 1
MaxSampleQuarters == 4
MaxPreviewClock == 5
MaxCycles == 2
MaxSubs == 3
MaxLogs == 2
MaxPlan == 2
MaxUploads == 4

\* ------------------------------------------------------- program constants
SettleDelay == 5
SeekTolerance == 2
DefaultClipLen == 50
DefaultInterval == 30
UploadInterval == 40
PreviewTolerance == 5
PreviewDefaultEnd == 100

\* ------------------------------------------------------------------ inputs
NoAsset == [type |-> "undefined"]

ImageAsset == [type |-> "image", base64 |-> TRUE, videoUrl |-> FALSE,
               videoStart |-> 0, videoEnd |-> 0]

DefaultClipAsset == [type |-> "video", base64 |-> FALSE, videoUrl |-> TRUE,
                     videoStart |-> 0, videoEnd |-> 0]

ClipAsset == [type |-> "video", base64 |-> FALSE, videoUrl |-> TRUE,
              videoStart |-> 1, videoEnd |-> 3]

VisualAsset == {ImageAsset, DefaultClipAsset, ClipAsset}

AssetLists == UNION {[1..n -> VisualAsset] : n \in 0..MaxAssets}

Durations == 1..MaxDuration

\* positions the video element may report when a tick reads currentTime
VideoPositions == {0, DefaultClipLen}

\* video.duration of an uploaded file, in steps of 2.5 s
SampleDurations == {25 * q : q \in 0..MaxSampleQuarters}

\* sampling steps of a direct call: 1.5 s and the default
SampleSteps == {15, DefaultInterval}

\* asset lists the preview is shown for
PreviewLists == {<<>>, <<ClipAsset>>, <<ImageAsset, ClipAsset>>,
                 <<DefaultClipAsset, ImageAsset>>}

\* positions the preview's video element may report while it plays: in
\* step, just inside the tolerance, and beyond it
PreviewPositions == {0, PreviewTolerance + 1, PreviewTolerance + 3}

\* a 9-second narration over one clip whose window is 2 s .. 5 s
SceneB == [asset |-> [type |-> "video", base64 |-> FALSE, videoUrl |-> TRUE,
                      videoStart |-> 20, videoEnd |-> 50],
           duration |-> 90]

\* the clip alone, and the clip shown in two scenes of 4.5 s
ClipLists == {<<SceneB.asset>>, <<SceneB.asset, SceneB.asset>>}

\* renders in which a clip is on screen: alone, with its default window,
\* and after an image
SeekLists == {<<ClipAsset>>, <<DefaultClipAsset>>, <<ImageAsset, ClipAsset>>}

\* widths and heights a source may report, among them 16:9 and 9:16
CoverSides == {0, 1, 3, 9, 16}
CoverDims == CoverSides \X CoverSides

\* an image and a clip, to be drawn at the sizes of CoverDims
CoverLists == {<<ImageAsset>>, <<ClipAsset>>}

\* the priority list `mimeTypes`
MimeTypes == <<"video/mp4", "video/webm;codecs=h264", "video/webm;codecs=vp9",
               "video/webm">>

\* hosts, each given by the set of types its MediaRecorder supports
Hosts == SUBSET {MimeTypes[i] : i \in 1..Len(MimeTypes)}

\* a host that records WebM only
WebmHost == {"video/webm;codecs=vp9", "video/webm"}

\* isLandscape ? 1920 x 1080 : 1080 x 1920
Canvas(isLandscape) ==
  [width |-> IF isLandscape THEN 1920 ELSE 1080,
   height |-> IF isLandscape THEN 1080 ELSE 1920]

\* sizes a decoded image or the video element may report: nothing yet, or a
\* square source
SourceDims == {<<0, 0>>, <<1, 1>>}

\* ------------------------------------------------------------------- state
VARIABLES
  assets,            \* the asset list captured by the call
  duration,          \* audioBuffer.duration
  ctx,               \* canvas.getContext('2d'): "none" | "2d" | "null"
  promise,           \* "none" | "pending" | "resolved" | "rejected"
  rejectReason,      \* the error the promise was rejected with
  audioContext,      \* "none" | "running" | "closed"
  currentTime,       \* audioContext.currentTime as last read
  source,            \* "none" | "connected" | "started" | "disconnected"
  recorder,          \* "none" | "inactive" | "recording" | "flushing" | "stopEvent" | "stopped"
  chunks,            \* the chunks array
  delivered,         \* every dataavailable event so far
  blob,              \* the chunks the blob was assembled from, or NoBlob
  loadedImages,      \* per asset: "pending" | "img" | "null"
  startTime,         \* audioContext.currentTime at recorder start, or -1
  videoEl,           \* "none" | "created" | "src" | "playing"
  videoCurrentTime,  \* videoEl.currentTime as a fraction
  seeks,             \* whether the last tick assigned videoEl.currentTime
  progress,          \* last value passed to onProgress, or NoProgress
  rafPending,        \* a drawFrame callback is scheduled
  timerPending,      \* the settle timeout is scheduled
  timer,             \* wall time since the settle timeout was set, read when
                     \* it is set and when its callback runs; -1 before
  canvasOp,          \* what the last tick painted
  safeIndex,         \* safeIndex computed by the last tick, NoIndex if it computed none
  tickElapsed,       \* elapsed observed by the last tick, or -1
  threw,             \* an exception escaped the loadedImages continuation
  recorderStarts,    \* calls of recorder.start()
  recorderStops,     \* calls of recorder.stop()
  canvas,            \* the canvas the call created: [width, height], or NoCanvas
  host,              \* the MIME types MediaRecorder.isTypeSupported accepts
  selectedMimeType,  \* the closure's selectedMimeType, or "none"
  recorderMimeType,  \* the mimeType option the recorder was constructed with
  blobType,          \* the type option the blob was constructed with
  tickVideo,         \* what the last tick's video branch read and computed:
                     \* [pos, target, seeking], or NoVideoTick if it did
                     \* not run
  canvasRect,        \* the source size and destination rectangle of the last
                     \* tick's drawImage, or NoRect
  \* extractFramesFromVideo and its caller handleVideoUpload
  samplerPromise,    \* "none" | "pending" | "resolved" | "rejected"
  samplerResult,     \* the list the promise was resolved with
  samplerCtx,        \* the sampler canvas' getContext('2d'): "none" | "2d" | "null"
  samplerPc,         \* "none" | "loading" | "seeking" | "done"
  videoDuration,     \* video.duration of the source
  intervalSeconds,   \* the step
  samplerTime,       \* the loop's currentTime
  frames,            \* the frames array
  videoUrl,          \* "none" | "blob" | "revoked"
  videoError,        \* the source has fired its error event
  captureThrew,      \* a capture threw inside the loop
  samplerVideo,      \* the sampler's video element: its 'seeked' listeners,
                     \* its seeks outstanding, the position asked for and
                     \* the position it shows
  isProcessingVideo, \* React state
  videoFrames,       \* React state
  uploads,           \* which file demoVideoFile holds, which file the stored
                     \* videoFrames were sampled from (0: none), the files
                     \* of the handleVideoUpload calls still awaiting, and
                     \* how many files have been picked
  errorMsg,          \* React state: "null" or the message
  \* the preview of the DONE screen
  isPlaying,         \* React state
  isRendering,       \* React state
  currentAssetIndex, \* React state
  capturedAssetIndex,\* currentAssetIndex as the closure run by `loop` sees it
  capturedAssets,    \* assets as the closure run by `loop` sees it
  startTimeRef,      \* startTimeRef.current
  pauseTimeRef,      \* pauseTimeRef.current
  sourceNode,        \* sourceNodeRef.current: "null" | "playing" | "stopped"
  animationFrame,    \* a `loop` callback is scheduled
  previewClock,      \* audioContextRef.current.currentTime as last read
  previewVideo,      \* videoPreviewRef.current: [currentTime, paused]
  previewTick,       \* what the last updateSlideshow run computed
  resumes,           \* playAudio calls that followed a pause, up to MaxCycles
  renderCalls,       \* renderVideo calls of handleDownloadVideo: how many
                     \* have not settled, and whether one has
  \* the log registry of utils/logger
  listeners,         \* the module's listeners array, of listener functions
  registry,          \* the subscribeToLogs calls so far, the addLog calls so
                     \* far and the forEach of the addLog call under way
  \* handleGenerateContent
  generation         \* the call under way: its position, the plan, the
                     \* assets generated so far, and the App state it sets

vars == <<assets, duration, ctx, promise, rejectReason, audioContext, currentTime,
          source, recorder, chunks, delivered, blob, loadedImages, startTime,
          videoEl, videoCurrentTime, seeks, progress, rafPending, timerPending,
          timer, canvasOp, safeIndex, tickElapsed, threw, recorderStarts,
          recorderStops, canvas, host, selectedMimeType, recorderMimeType,
          blobType, tickVideo, canvasRect,
          samplerPromise, samplerResult, samplerCtx, samplerPc, videoDuration,
          intervalSeconds, samplerTime, frames, videoUrl, videoError,
          captureThrew, samplerVideo, isProcessingVideo, videoFrames, uploads,
          errorMsg,
          isPlaying, isRendering, currentAssetIndex, capturedAssetIndex,
          capturedAssets,
          startTimeRef, pauseTimeRef, sourceNode, animationFrame,
          previewClock, previewVideo, previewTick, resumes, renderCalls,
          listeners, registry, generation>>

\* one renderVideo call, without its arguments
renderSession == <<ctx, promise, rejectReason, audioContext, currentTime,
                   source, recorder, chunks, delivered, blob, loadedImages,
                   startTime, videoEl, videoCurrentTime, seeks, progress,
                   rafPending, timerPending, timer, canvasOp, safeIndex,
                   tickElapsed, threw, recorderStarts, recorderStops, canvas,
                   host, selectedMimeType, recorderMimeType, blobType,
                   tickVideo, canvasRect>>

\* one extractFramesFromVideo call
samplerCall == <<samplerPromise, samplerResult, samplerCtx, samplerPc,
                 videoDuration, intervalSeconds, samplerTime, frames,
                 videoUrl, videoError, captureThrew, samplerVideo>>

samplerVars == <<samplerCall, isProcessingVideo, videoFrames, uploads,
                 errorMsg>>

previewVars == <<isPlaying, isRendering, currentAssetIndex,
                 capturedAssetIndex, capturedAssets, startTimeRef,
                 pauseTimeRef, sourceNode,
                 animationFrame, previewClock, previewVideo, previewTick,
                 resumes, renderCalls>>

\* state of the rest of the application, which renderVideo does not touch
loggerVars == <<listeners, registry>>

generationVars == <<generation>>

appVars == <<samplerVars, previewVars, loggerVars, generationVars>>

\* what the executor fixes before the first tick
recorderSetup == <<canvas, host, selectedMimeType, recorderMimeType>>


NoProgress == [num |-> -1, den |-> 1]
NoIndex == -2
NoBlob == <<[id |-> 0, size |-> 0, settling |-> FALSE, final |-> FALSE]>>
NoCanvas == [width |-> 0, height |-> 0]
NoVideoTick == [pos |-> [num |-> -1, den |-> 1], target |-> [num |-> -1, den |-> 1],
                seeking |-> FALSE]
NoDispatch == [active |-> FALSE, entry |-> 0, index |-> 0, len |-> 0,
               expected |-> <<>>, atStart |-> {}, delivered |-> <<>>,
               unsubscribed |-> FALSE]
NoGeneration == [pc |-> "idle", state |-> "SCRIPT_REVIEW", audioBuffer |-> FALSE,
                 closure |-> [audioBuffer |-> FALSE, assets |-> <<>>],
                 demoVideoFile |-> FALSE, plan |-> <<>>, index |-> 0,
                 generatedAssets |-> <<>>, outcomes |-> <<>>, cause |-> "none"]
DoneScreen == [NoGeneration EXCEPT !.pc = "done", !.state = "DONE",
                                   !.audioBuffer = TRUE]
NoSamplerVideo == [onSeek |-> 0, seeking |-> 0, target |-> 0, currentTime |-> 0]
NoFit == [x |-> [num |-> 0, den |-> 1], y |-> [num |-> 0, den |-> 1],
          w |-> [num |-> 0, den |-> 1], h |-> [num |-> 0, den |-> 1]]
NoRect == [src |-> <<0, 0>>, rect |-> NoFit]
NoPreviewTick == [elapsed |-> -1, index |-> -1, video |-> FALSE,
                  pos |-> NoVideoTick.pos, target |-> NoVideoTick.target,
                  seeks |-> FALSE]

Min(a, b) == IF a <= b THEN a ELSE b
Abs(a) == IF a < 0 THEN -a ELSE a

\* --------------------------------------------------------- pure functions
\* The floor replaced by "ceiling minus one": a time on a boundary falls into
\* the scene that ends there.
SceneIndexBoundaryLow(elapsed, n, dur) ==
  IF n = 0 THEN 0
  ELSE IF elapsed > 0 /\ (elapsed * n) % dur = 0
       THEN (elapsed * n) \div dur - 1
       ELSE (elapsed * n) \div dur

\* Math.floor(elapsed / sceneDuration) with sceneDuration = duration / n.
\* For n = 0 the quotient duration / 0 is Infinity and elapsed / Infinity is 0.
SceneIndex(elapsed, n, dur) ==
  IF n = 0 THEN 0 ELSE (elapsed * n) \div dur

\* Math.min(index, assets.length - 1)
SafeIndex(elapsed, n, dur) == Min(SceneIndex(elapsed, n, dur), n - 1)

\* The percentage without Math.min(100, ...).
ProgressUnclamped(elapsed, dur) == [num |-> elapsed * 100, den |-> dur]

\* Math.min(100, (elapsed / duration) * 100), as a fraction over duration
Progress(elapsed, dur) ==
  [num |-> Min(100 * dur, elapsed * 100), den |-> dur]

Leq(p, q) == p.num * q.den <= q.num * p.den

\* asset.videoStart || 0
VStart(asset) == asset.videoStart

\* asset.videoEnd || (vStart + 5)
VEnd(asset) ==
  IF asset.videoEnd # 0 THEN asset.videoEnd ELSE VStart(asset) + DefaultClipLen

\* The target without the clip's own wrap-around.
TargetTimeNoWrap(asset, elapsed, n, dur) ==
  [num |-> VStart(asset) * n + ((elapsed * n) % dur), den |-> n]

\* vStart + ((elapsed % sceneDuration) % clipLen), as a fraction over n
TargetTime(asset, elapsed, n, dur) ==
  LET timeInSceneN == (elapsed * n) % dur
      clipLenN == (VEnd(asset) - VStart(asset)) * n
  IN [num |-> VStart(asset) * n + (timeInSceneN % clipLenN), den |-> n]

\* The drift test with >= in place of >.
DriftedInclusive(cur, target) ==
  Abs(cur.num * target.den - target.num * cur.den)
    >= SeekTolerance * cur.den * target.den

\* Math.abs(videoEl.currentTime - targetTime) > 0.2
Drifted(cur, target) ==
  Abs(cur.num * target.den - target.num * cur.den)
    > SeekTolerance * cur.den * target.den

\* The image branch without its `&& img` test.
ImageBranchUnchecked(asset, img) == asset.type = "image"

\* if (asset.type === 'image' && img)
ImageBranch(asset, img) == asset.type = "image" /\ img = "img"

\* find() taken from the low-priority end of the list.
SelectedMimeTypeLast(supported) ==
  IF \E i \in 1..Len(MimeTypes) : MimeTypes[i] \in supported
  THEN LET i == CHOOSE j \in 1..Len(MimeTypes) :
                  /\ MimeTypes[j] \in supported
                  /\ \A k \in (j + 1)..Len(MimeTypes) : MimeTypes[k] \notin supported
       IN MimeTypes[i]
  ELSE "video/webm"

\* mimeTypes.find(type => MediaRecorder.isTypeSupported(type)) || 'video/webm'
SelectedMimeType(supported) ==
  IF \E i \in 1..Len(MimeTypes) : MimeTypes[i] \in supported
  THEN LET i == CHOOSE j \in 1..Len(MimeTypes) :
                  /\ MimeTypes[j] \in supported
                  /\ \A k \in 1..(j - 1) : MimeTypes[k] \notin supported
       IN MimeTypes[i]
  ELSE "video/webm"

\* Math.min in place of Math.max: the source is fitted inside the canvas.
CoverScaleContain(w, h, cv) ==
  IF cv.width * h <= cv.height * w
  THEN [num |-> cv.width, den |-> w]
  ELSE [num |-> cv.height, den |-> h]

\* Math.max(canvas.width / w, canvas.height / h) for w, h > 0, as a fraction
CoverScale(w, h, cv) ==
  IF cv.width * h >= cv.height * w
  THEN [num |-> cv.width, den |-> w]
  ELSE [num |-> cv.height, den |-> h]

\* image branch: x = canvas.width / 2 - (img.width / 2) * scale, y likewise,
\* drawImage(img, x, y, img.width * scale, img.height * scale)
CoverFitImage(w, h, cv) ==
  LET scale == CoverScale(w, h, cv)
  IN [x |-> [num |-> cv.width * scale.den - w * scale.num, den |-> 2 * scale.den],
      y |-> [num |-> cv.height * scale.den - h * scale.num, den |-> 2 * scale.den],
      w |-> [num |-> w * scale.num, den |-> scale.den],
      h |-> [num |-> h * scale.num, den |-> scale.den]]

\* video branch: the same computation on videoWidth and videoHeight
CoverFitVideo(vw, vh, cv) ==
  LET scale == CoverScale(vw, vh, cv)
  IN [x |-> [num |-> cv.width * scale.den - vw * scale.num, den |-> 2 * scale.den],
      y |-> [num |-> cv.height * scale.den - vh * scale.num, den |-> 2 * scale.den],
      w |-> [num |-> vw * scale.num, den |-> scale.den],
      h |-> [num |-> vh * scale.num, den |-> scale.den]]

\* The end test written with > instead of >=.
FinishedStrict(elapsed, dur) == elapsed > dur

\* if (elapsed >= duration)
Finished(elapsed, dur) == elapsed >= dur

\* Promise.race in place of Promise.all: one settled decode is enough.
AnySettled(imgs) == \E i \in 1..Len(imgs) : imgs[i] # "pending"

\* Promise.all over the per-asset promises: every one of them has resolved
AllSettled(imgs) == \A i \in 1..Len(imgs) : imgs[i] # "pending"

\* assets.find(a => a.type === 'video')
HasVideoAsset(as) == \E i \in 1..Len(as) : as[i].type = "video"

VideoAssetUrl(as) ==
  LET i == CHOOSE j \in 1..Len(as) :
             /\ as[j].type = "video"
             /\ \A k \in 1..(j - 1) : as[k].type # "video"
  IN as[i].videoUrl

\* assets[safeIndex] (JavaScript arrays start at 0; out of range is undefined)
AssetAt(as, idx) == IF idx \in 0..(Len(as) - 1) THEN as[idx + 1] ELSE NoAsset

ImgAt(imgs, idx) == IF idx \in 0..(Len(imgs) - 1) THEN imgs[idx + 1] ELSE "undefined"

\* -------------------------------------------------------------------- Init
\* nothing has been called yet
SessionIdle ==
  /\ ctx = "none"
  /\ promise = "none"
  /\ rejectReason = "none"
  /\ audioContext = "none"
  /\ currentTime = 0
  /\ source = "none"
  /\ recorder = "none"
  /\ chunks = <<>>
  /\ delivered = <<>>
  /\ blob = NoBlob
  /\ loadedImages = <<>>
  /\ startTime = -1
  /\ videoEl = "none"
  /\ videoCurrentTime = [num |-> 0, den |-> 1]
  /\ seeks = FALSE
  /\ progress = NoProgress
  /\ rafPending = FALSE
  /\ timerPending = FALSE
  /\ timer = -1
  /\ canvasOp = "none"
  /\ safeIndex = NoIndex
  /\ tickElapsed = -1
  /\ threw = FALSE
  /\ recorderStarts = 0
  /\ recorderStops = 0
  /\ canvas = NoCanvas
  /\ host = {}
  /\ selectedMimeType = "none"
  /\ recorderMimeType = "none"
  /\ blobType = "none"
  /\ tickVideo = NoVideoTick
  /\ canvasRect = NoRect
  /\ samplerPromise = "none"
  /\ samplerResult = <<>>
  /\ samplerCtx = "none"
  /\ samplerPc = "none"
  /\ videoDuration = 0
  /\ intervalSeconds = DefaultInterval
  /\ samplerTime = 0
  /\ frames = <<>>
  /\ videoUrl = "none"
  /\ videoError = FALSE
  /\ captureThrew = FALSE
  /\ samplerVideo = NoSamplerVideo
  /\ isProcessingVideo = FALSE
  /\ videoFrames = <<>>
  /\ uploads = [demoVideoFile |-> 0, framesOf |-> 0, calls |-> <<>>,
                started |-> 0]
  /\ errorMsg = "null"
  /\ isPlaying = FALSE
  /\ isRendering = FALSE
  /\ currentAssetIndex = 0
  /\ capturedAssetIndex = 0
  /\ capturedAssets = <<>>
  /\ startTimeRef = 0
  /\ pauseTimeRef = 0
  /\ sourceNode = "null"
  /\ animationFrame = FALSE
  /\ previewClock = 0
  /\ previewVideo = [currentTime |-> [num |-> 0, den |-> 1], paused |-> TRUE]
  /\ previewTick = NoPreviewTick
  /\ resumes = 0
  /\ renderCalls = [inFlight |-> 0, settled |-> FALSE]
  /\ listeners = <<>>
  /\ registry = [subscriptions |-> <<>>, logs |-> 0, dispatch |-> NoDispatch]

Init ==
  /\ assets = <<>>
  /\ duration = 1
  /\ generation = NoGeneration
  /\ SessionIdle

\* ----------------------------------------------------------------- actions
\* The executor without the `return` after reject(...): setup goes on.
RenderVideoNoReturn ==
  /\ promise = "none"
  /\ \E as \in AssetLists, d \in Durations, c \in {"2d", "null"} :
       /\ assets' = as
       /\ duration' = d
       /\ canvas' = Canvas(TRUE)
       /\ host' = WebmHost
       /\ ctx' = c
       /\ promise' = IF c = "null" THEN "rejected" ELSE "pending"
       /\ rejectReason' = IF c = "null" THEN "Could not get canvas context"
                          ELSE "none"
       /\ audioContext' = "running"
       /\ source' = "connected"
       /\ selectedMimeType' = SelectedMimeType(WebmHost)
       /\ recorderMimeType' = selectedMimeType'
       /\ recorder' = "inactive"
       /\ loadedImages' =
            [i \in 1..Len(as) |->
               IF as[i].type = "image" /\ as[i].base64
               THEN "pending" ELSE "null"]
       /\ videoEl' = IF HasVideoAsset(as) /\ VideoAssetUrl(as)
                     THEN "src" ELSE "created"
  /\ UNCHANGED <<currentTime, chunks, delivered, blob, startTime,
                 videoCurrentTime, seeks, progress, rafPending, timerPending,
                 timer, canvasOp, safeIndex, tickElapsed, threw,
                 recorderStarts, recorderStops, blobType, tickVideo,
                 canvasRect, appVars>>

\* The promise executor of renderVideo: everything that runs synchronously,
\* for a call drawn from the given asset lists, audio durations, hosts and
\* orientations.
RenderVideoOn(lists, durations, hosts, orientations) ==
  /\ promise = "none"
  /\ \E as \in lists, d \in durations, c \in {"2d", "null"},
        supported \in hosts, isLandscape \in orientations :
       /\ assets' = as
       /\ duration' = d
       /\ canvas' = Canvas(isLandscape)
       /\ host' = supported
       /\ ctx' = c
       /\ IF c = "null"
          THEN /\ promise' = "rejected"
               /\ rejectReason' = "Could not get canvas context"
               /\ UNCHANGED <<audioContext, source, recorder, loadedImages,
                              videoEl, selectedMimeType, recorderMimeType>>
          ELSE /\ promise' = "pending"
               /\ rejectReason' = "none"
               /\ audioContext' = "running"
               /\ source' = "connected"
               /\ selectedMimeType' = SelectedMimeType(supported)
               /\ recorderMimeType' = selectedMimeType'
               /\ recorder' = "inactive"
               /\ loadedImages' =
                    [i \in 1..Len(as) |->
                       IF as[i].type = "image" /\ as[i].base64
                       THEN "pending" ELSE "null"]
               /\ videoEl' = IF HasVideoAsset(as) /\ VideoAssetUrl(as)
                             THEN "src" ELSE "created"
  /\ UNCHANGED <<currentTime, chunks, delivered, blob, startTime,
                 videoCurrentTime, seeks, progress, rafPending, timerPending,
                 timer, canvasOp, safeIndex, tickElapsed, threw,
                 recorderStarts, recorderStops, blobType, tickVideo,
                 canvasRect, appVars>>

\* renderVideo called for a landscape platform on a WebM-only host
RenderVideo == RenderVideoOn(AssetLists, Durations, {WebmHost}, {TRUE})

\* img.onload = () => resolveImg(img)
ImgOnload ==
  /\ \E i \in 1..Len(loadedImages) :
       /\ loadedImages[i] = "pending"
       /\ loadedImages' = [loadedImages EXCEPT ![i] = "img"]
  /\ UNCHANGED <<assets, duration, ctx, promise, rejectReason, audioContext,
                 currentTime, source, recorder, chunks, delivered, blob,
                 startTime, videoEl, videoCurrentTime, seeks, progress,
                 rafPending, timerPending, timer, canvasOp, safeIndex,
                 tickElapsed, threw, recorderStarts, recorderStops,
                 recorderSetup, blobType, tickVideo, canvasRect, appVars>>

\* img.onerror = () => resolveImg(null)
ImgOnerror ==
  /\ \E i \in 1..Len(loadedImages) :
       /\ loadedImages[i] = "pending"
       /\ loadedImages' = [loadedImages EXCEPT ![i] = "null"]
  /\ UNCHANGED <<assets, duration, ctx, promise, rejectReason, audioContext,
                 currentTime, source, recorder, chunks, delivered, blob,
                 startTime, videoEl, videoCurrentTime, seeks, progress,
                 rafPending, timerPending, timer, canvasOp, safeIndex,
                 tickElapsed, threw, recorderStarts, recorderStops,
                 recorderSetup, blobType, tickVideo, canvasRect, appVars>>

\* The body of drawFrame for an observed elapsed time.  ready and cur are
\* what the video element reports on this tick (readyState >= 2 and its
\* currentTime); dims is the size the active source reports (img.width and
\* img.height, or videoWidth and videoHeight).
DrawFrameBody(elapsed, ready, dims, cur) ==
  /\ progress' = Progress(elapsed, duration)
  /\ tickElapsed' = elapsed
  /\ IF Finished(elapsed, duration)
     THEN /\ timerPending' = TRUE
          /\ timer' = 0
          /\ rafPending' = FALSE
          /\ safeIndex' = NoIndex
          /\ seeks' = FALSE
          /\ tickVideo' = NoVideoTick
          /\ UNCHANGED <<canvasOp, canvasRect, videoCurrentTime, threw>>
     ELSE LET idx == SafeIndex(elapsed, Len(assets), duration)
              asset == AssetAt(assets, idx)
              img == ImgAt(loadedImages, idx)
              target == TargetTime(asset, elapsed, Len(assets), duration)
              pos == [num |-> cur, den |-> 1]
              drawable == dims[1] > 0 /\ dims[2] > 0
          IN /\ safeIndex' = idx
             /\ UNCHANGED <<timerPending, timer>>
             /\ IF asset = NoAsset
                THEN \* TypeError on asset.type: the tick ends here
                     /\ canvasOp' = "fill"
                     /\ canvasRect' = NoRect
                     /\ threw' = TRUE
                     /\ rafPending' = FALSE
                     /\ seeks' = FALSE
                     /\ tickVideo' = NoVideoTick
                     /\ UNCHANGED videoCurrentTime
                ELSE IF ImageBranch(asset, img)
                THEN /\ seeks' = FALSE
                     /\ tickVideo' = NoVideoTick
                     /\ UNCHANGED videoCurrentTime
                     /\ IF img = "img"
                        THEN \* a decoded image has a size
                             /\ drawable
                             /\ canvasOp' = "image"
                             /\ canvasRect' =
                                  [src |-> dims,
                                   rect |-> CoverFitImage(dims[1], dims[2], canvas)]
                             /\ threw' = threw
                             /\ rafPending' = TRUE
                        ELSE \* TypeError on img.width
                             /\ canvasOp' = "fill"
                             /\ canvasRect' = NoRect
                             /\ threw' = TRUE
                             /\ rafPending' = FALSE
                ELSE /\ threw' = threw
                     /\ rafPending' = TRUE
                     /\ IF asset.type = "video" /\ ready
                        THEN \* the assignment to currentTime starts the seek
                             \* and returns; drawImage follows in the same
                             \* synchronous block, before any 'seeked' event
                             /\ tickVideo' = [pos |-> pos, target |-> target,
                                              seeking |-> Drifted(pos, target)]
                             /\ seeks' = Drifted(pos, target)
                             /\ videoCurrentTime' =
                                  IF Drifted(pos, target) THEN target ELSE pos
                             /\ canvasOp' = IF drawable THEN "video" ELSE "fill"
                             /\ canvasRect' =
                                  IF drawable
                                  THEN [src |-> dims,
                                        rect |-> CoverFitVideo(dims[1], dims[2], canvas)]
                                  ELSE NoRect
                        ELSE /\ canvasOp' = "fill"
                             /\ canvasRect' = NoRect
                             /\ seeks' = FALSE
                             /\ tickVideo' = NoVideoTick
                             /\ UNCHANGED videoCurrentTime

\* loadedImages.then(imgs => { ... drawFrame(); }).  The audio clock has been
\* running since the context was created: startTime reads what has passed
\* while image decodes were awaited (nothing when there was none to await).
LoadedImagesThenOn(sizes) ==
  /\ promise = "pending"
  /\ recorder = "inactive"
  /\ AllSettled(loadedImages)
  /\ recorder' = "recording"
  /\ recorderStarts' = recorderStarts + 1
  /\ source' = "started"
  /\ \E now \in 0..MaxPreroll :
       /\ now > 0 => \E i \in 1..Len(assets) : assets[i].type = "image" /\ assets[i].base64
       /\ currentTime' = now
  /\ startTime' = currentTime'
  /\ videoEl' = IF HasVideoAsset(assets) /\ videoEl = "src"
                THEN "playing" ELSE videoEl
  /\ \E ready \in BOOLEAN, dims \in sizes, cur \in VideoPositions :
       /\ ready => videoEl' = "playing"
       /\ DrawFrameBody(currentTime' - startTime', ready, dims, cur)
  /\ UNCHANGED <<assets, duration, ctx, promise, rejectReason, audioContext,
                 chunks, delivered, blob, loadedImages, recorderStops,
                 recorderSetup, blobType, appVars>>

LoadedImagesThen == LoadedImagesThenOn(SourceDims)

\* A scheduled requestAnimationFrame(drawFrame) callback runs.  The audio
\* clock it reads has not gone back since the previous read.
DrawFrameOn(sizes) ==
  /\ rafPending
  /\ \E d \in 0..MaxClockStep :
       /\ currentTime + d - startTime <= duration + MaxOvershoot
       /\ currentTime' = currentTime + d
  /\ \E ready \in BOOLEAN, dims \in sizes, cur \in VideoPositions :
       /\ ready => videoEl = "playing"
       /\ DrawFrameBody(currentTime' - startTime, ready, dims, cur)
  /\ UNCHANGED <<assets, duration, ctx, promise, rejectReason, audioContext,
                 source, recorder, chunks, delivered, blob,
                 loadedImages, startTime, videoEl, recorderStarts,
                 recorderStops, recorderSetup, blobType, appVars>>

DrawFrame == DrawFrameOn(SourceDims)

\* setInterval in place of setTimeout: the callback fires again and again.
SettleTimeoutRepeat ==
  /\ timer >= 0
  /\ \E late \in 0..MaxLate : timer' = SettleDelay + late
  /\ timerPending' = FALSE
  /\ recorder' = "flushing"
  /\ recorderStops' = recorderStops + 1
  /\ UNCHANGED <<assets, duration, ctx, promise, rejectReason, audioContext,
                 currentTime, source, chunks, delivered, blob, loadedImages,
                 startTime, videoEl, videoCurrentTime, seeks, progress,
                 rafPending, canvasOp, safeIndex, tickElapsed, threw,
                 recorderStarts, recorderSetup, blobType, tickVideo,
                 canvasRect, appVars>>

\* The timeout without its delay: recorder.stop() as soon as it is scheduled.
SettleTimeoutEarly ==
  /\ timerPending
  /\ \E late \in 0..MaxLate : timer' = late
  /\ timerPending' = FALSE
  /\ recorder' = "flushing"
  /\ recorderStops' = recorderStops + 1
  /\ UNCHANGED <<assets, duration, ctx, promise, rejectReason, audioContext,
                 currentTime, source, chunks, delivered, blob, loadedImages,
                 startTime, videoEl, videoCurrentTime, seeks, progress,
                 rafPending, canvasOp, safeIndex, tickElapsed, threw,
                 recorderStarts, recorderSetup, blobType, tickVideo,
                 canvasRect, appVars>>

\* setTimeout(() => recorder.stop(), 500) fires: a timeout runs its callback
\* when at least the requested delay has passed.
SettleTimeout ==
  /\ timerPending
  /\ \E late \in 0..MaxLate : timer' = SettleDelay + late
  /\ timerPending' = FALSE
  /\ recorder' = "flushing"
  /\ recorderStops' = recorderStops + 1
  /\ UNCHANGED <<assets, duration, ctx, promise, rejectReason, audioContext,
                 currentTime, source, chunks, delivered, blob, loadedImages,
                 startTime, videoEl, videoCurrentTime, seeks, progress,
                 rafPending, canvasOp, safeIndex, tickElapsed, threw,
                 recorderStarts, recorderSetup, blobType, tickVideo,
                 canvasRect, appVars>>

\* recorder.ondataavailable = e => { if (e.data.size > 0) chunks.push(e.data) }
\* While recording the host may hand over data; after stop() it hands over
\* the rest before it fires the stop event.
OnDataAvailable ==
  /\ \/ recorder = "recording" /\ Len(delivered) < MaxChunks /\ recorder' = recorder
     \/ recorder = "flushing" /\ recorder' = "stopEvent"
  /\ \E size \in 0..1 :
       LET data == [id |-> Len(delivered) + 1, size |-> size,
                    settling |-> timer >= 0,
                    final |-> recorder = "flushing"]
       IN /\ delivered' = Append(delivered, data)
          /\ chunks' = IF size > 0 THEN Append(chunks, data) ELSE chunks
  /\ UNCHANGED <<assets, duration, ctx, promise, rejectReason, audioContext,
                 currentTime, source, blob, loadedImages, startTime, videoEl,
                 videoCurrentTime, seeks, progress, rafPending, timerPending,
                 timer, canvasOp, safeIndex, tickElapsed, threw,
                 recorderStarts, recorderStops, recorderSetup, blobType,
                 tickVideo, canvasRect, appVars>>

\* recorder.onstop
OnStop ==
  /\ recorder = "stopEvent"
  /\ recorder' = "stopped"
  /\ blob' = chunks
  /\ blobType' = selectedMimeType
  /\ source' = "disconnected"
  /\ audioContext' = "closed"
  /\ promise' = IF promise = "pending" THEN "resolved" ELSE promise
  /\ UNCHANGED <<assets, duration, ctx, rejectReason, currentTime, chunks,
                 delivered, loadedImages, startTime, videoEl,
                 videoCurrentTime, seeks, progress, rafPending, timerPending,
                 timer, canvasOp, safeIndex, tickElapsed, threw,
                 recorderStarts, recorderStops, recorderSetup, tickVideo,
                 canvasRect, appVars>>

Next ==
  \/ RenderVideo
  \/ ImgOnload
  \/ ImgOnerror
  \/ LoadedImagesThen
  \/ DrawFrame
  \/ SettleTimeout
  \/ OnDataAvailable
  \/ OnStop

Spec == Init /\ [][Next]_vars


\* ------------------------------------------- renders of chosen scenarios
\* scenario B rendered
RenderVideoClips ==
  RenderVideoOn(ClipLists, {SceneB.duration}, {WebmHost}, {TRUE})

ClipNext ==
  \/ RenderVideoClips
  \/ LoadedImagesThen
  \/ DrawFrame
  \/ SettleTimeout
  \/ OnDataAvailable
  \/ OnStop

ClipSpec == Init /\ [][ClipNext]_vars

\* a clip rendered over a narration of 0.2 s
RenderVideoSeek == RenderVideoOn(SeekLists, {2}, {WebmHost}, {TRUE})

SeekNext ==
  \/ RenderVideoSeek
  \/ ImgOnload
  \/ ImgOnerror
  \/ LoadedImagesThen
  \/ DrawFrame
  \/ SettleTimeout
  \/ OnDataAvailable
  \/ OnStop

SeekSpec == Init /\ [][SeekNext]_vars

\* one image rendered on every kind of host
RenderVideoHosts == RenderVideoOn({<<ImageAsset>>}, {1}, Hosts, {TRUE})

MimeNext ==
  \/ RenderVideoHosts
  \/ ImgOnload
  \/ ImgOnerror
  \/ LoadedImagesThen
  \/ DrawFrame
  \/ SettleTimeout
  \/ OnDataAvailable
  \/ OnStop

MimeSpec == Init /\ [][MimeNext]_vars

\* an image or a clip rendered for both orientations, the source reporting
\* any size of CoverDims
RenderVideoCover == RenderVideoOn(CoverLists, {1}, {WebmHost}, BOOLEAN)

LoadedImagesThenCover == LoadedImagesThenOn(CoverDims)

DrawFrameCover == DrawFrameOn(CoverDims)

CoverNext ==
  \/ RenderVideoCover
  \/ ImgOnload
  \/ ImgOnerror
  \/ LoadedImagesThenCover
  \/ DrawFrameCover
  \/ SettleTimeout
  \/ OnDataAvailable
  \/ OnStop

CoverSpec == Init /\ [][CoverNext]_vars

\* ------------------------------------------------------- the frame sampler
\* Math.round of a non-negative time, from tenths of a second to seconds
Round(t) == (t + 5) \div 10

\* new Promise((resolve, reject) => { ... }): everything that runs
\* synchronously in extractFramesFromVideo(videoFile, intervalSeconds).
ExtractFramesFromVideo(steps) ==
  /\ samplerPromise = "none"
  /\ samplerPromise' = "pending"
  /\ \E D \in SampleDurations, S \in steps, c \in {"2d", "null"} :
       /\ videoDuration' = D
       /\ intervalSeconds' = S
       /\ samplerCtx' = c
  /\ frames' = <<>>
  /\ videoUrl' = "blob"
  /\ samplerPc' = "loading"
  /\ samplerVideo' = NoSamplerVideo
  /\ UNCHANGED <<samplerResult, samplerTime, videoError, captureThrew>>

\* a call with a step of the caller's choice
ExtractFrames ==
  /\ ExtractFramesFromVideo(SampleSteps)
  /\ UNCHANGED <<assets, duration, renderSession, loggerVars, generationVars, previewVars, isProcessingVideo,
                 videoFrames, uploads, errorMsg>>

\* handleVideoUpload up to its await
HandleVideoUpload ==
  /\ isProcessingVideo' = TRUE
  /\ uploads' = [uploads EXCEPT !.demoVideoFile = 1]
  /\ ExtractFramesFromVideo({UploadInterval})
  /\ UNCHANGED <<assets, duration, renderSession, loggerVars, generationVars, previewVars, videoFrames, errorMsg>>

\* The listener list without the removal: onSeek stays registered.
RemoveEventListenerKept(v) == v

\* video.removeEventListener('seeked', onSeek)
RemoveEventListener(v) == [v EXCEPT !.onSeek = v.onSeek - 1]

\* seekResolve(time): register onSeek, then assign video.currentTime
SeekResolve(v, time) ==
  [v EXCEPT !.onSeek = v.onSeek + 1,
            !.seeking = v.seeking + 1,
            !.target = time]

\* The element completes its seek and dispatches 'seeked'; onSeek removes
\* itself before it resolves the awaited promise.
Seeked(v) ==
  RemoveEventListener([v EXCEPT !.seeking = v.seeking - 1,
                                !.currentTime = v.target])

\* The loop whose exit releases the object URL but does not resolve.
SampleLoopNoResolve(t, fr, v) ==
  /\ samplerTime' = t
  /\ frames' = fr
  /\ IF t < videoDuration
     THEN /\ samplerPc' = "seeking"
          /\ samplerVideo' = SeekResolve(v, t)
          /\ UNCHANGED <<videoUrl, samplerPromise, samplerResult>>
     ELSE /\ samplerPc' = "done"
          /\ samplerVideo' = v
          /\ videoUrl' = "revoked"
          /\ UNCHANGED <<samplerPromise, samplerResult>>

\* The head of `while (currentTime < duration)` for loop time t, the frames
\* fr captured so far and the video element v: await the next seek, or
\* release the object URL and resolve.
SampleLoop(t, fr, v) ==
  /\ samplerTime' = t
  /\ frames' = fr
  /\ IF t < videoDuration
     THEN /\ samplerPc' = "seeking"
          /\ samplerVideo' = SeekResolve(v, t)
          /\ UNCHANGED <<videoUrl, samplerPromise, samplerResult>>
     ELSE /\ samplerPc' = "done"
          /\ samplerVideo' = v
          /\ videoUrl' = "revoked"
          /\ samplerPromise' =
               IF samplerPromise = "pending" THEN "resolved" ELSE samplerPromise
          /\ samplerResult' =
               IF samplerPromise = "pending" THEN fr ELSE samplerResult

\* video.onloadedmetadata
OnLoadedMetadata ==
  /\ samplerPc = "loading"
  /\ ~videoError
  /\ SampleLoop(0, frames, samplerVideo)
  /\ UNCHANGED <<assets, duration, renderSession, loggerVars, generationVars, previewVars, samplerCtx, videoDuration,
                 intervalSeconds, videoError, captureThrew, isProcessingVideo,
                 videoFrames, uploads, errorMsg>>

\* The 'seeked' listener resolves the awaited promise and the loop body
\* runs: capture (which may throw), advance, and the loop head again.
OnSeeked ==
  /\ samplerPc = "seeking"
  /\ \E throws \in BOOLEAN :
       /\ throws => samplerCtx = "2d"
       /\ captureThrew' = (captureThrew \/ throws)
       /\ IF throws
          THEN \* catch (e)
               /\ videoUrl' = "revoked"
               /\ samplerPromise' =
                    IF samplerPromise = "pending" THEN "rejected" ELSE samplerPromise
               /\ samplerPc' = "done"
               /\ samplerVideo' = Seeked(samplerVideo)
               /\ UNCHANGED <<samplerResult, samplerTime, frames>>
          ELSE SampleLoop(samplerTime + intervalSeconds,
                          IF samplerCtx = "2d"
                          THEN Append(frames,
                                      [timestamp |-> Round(samplerTime),
                                       at |-> Seeked(samplerVideo).currentTime])
                          ELSE frames,
                          Seeked(samplerVideo))
  /\ UNCHANGED <<assets, duration, renderSession, loggerVars, generationVars, previewVars, samplerCtx, videoDuration,
                 intervalSeconds, videoError, isProcessingVideo, videoFrames, uploads,
                 errorMsg>>

\* The error handler without URL.revokeObjectURL.
VideoOnErrorLeak ==
  /\ samplerPc \in {"loading", "seeking"}
  /\ ~videoError
  /\ videoError' = TRUE
  /\ samplerPromise' =
       IF samplerPromise = "pending" THEN "rejected" ELSE samplerPromise
  /\ UNCHANGED <<assets, duration, renderSession, loggerVars, generationVars, previewVars, samplerResult, samplerCtx,
                 samplerPc, videoDuration, intervalSeconds, samplerTime,
                 frames, videoUrl, captureThrew, samplerVideo, isProcessingVideo,
                 videoFrames, uploads, errorMsg>>

\* video.onerror: the source fails while loading or during the seek loop
VideoOnError ==
  /\ samplerPc \in {"loading", "seeking"}
  /\ ~videoError
  /\ videoError' = TRUE
  /\ videoUrl' = "revoked"
  /\ samplerPromise' =
       IF samplerPromise = "pending" THEN "rejected" ELSE samplerPromise
  /\ UNCHANGED <<assets, duration, renderSession, loggerVars, generationVars, previewVars, samplerResult, samplerCtx,
                 samplerPc, videoDuration, intervalSeconds, samplerTime,
                 frames, captureThrew, samplerVideo, isProcessingVideo, videoFrames, uploads,
                 errorMsg>>

\* handleVideoUpload after its await: setVideoFrames, or the catch block,
\* then the finally block
UploadSettled ==
  /\ isProcessingVideo
  /\ samplerPromise \in {"resolved", "rejected"}
  /\ IF samplerPromise = "resolved"
     THEN /\ videoFrames' = samplerResult
          /\ uploads' = [uploads EXCEPT !.framesOf = 1]
          /\ UNCHANGED errorMsg
     ELSE /\ errorMsg' = "Failed to process video file"
          /\ UNCHANGED <<videoFrames, uploads>>
  /\ isProcessingVideo' = FALSE
  /\ UNCHANGED <<assets, duration, renderSession, loggerVars, generationVars, previewVars, samplerCall>>

\* handleVideoUpload up to its await, for the file the user picks while
\* earlier calls may still await their frames (the input is never disabled)
HandleVideoUploadOf(file) ==
  /\ uploads' = [uploads EXCEPT !.demoVideoFile = file,
                                !.calls = Append(@, file),
                                !.started = @ + 1]
  /\ isProcessingVideo' = TRUE
  /\ UNCHANGED <<assets, duration, renderSession, loggerVars, generationVars,
                 previewVars, samplerCall, videoFrames, errorMsg>>

\* every pick is a new File object
PickVideo ==
  /\ uploads.started < MaxUploads
  /\ HandleVideoUploadOf(uploads.started + 1)

\* The frames a call's extractFramesFromVideo resolves with: the whole
\* sample set of its file, or none when the canvas gave no 2D context
SampleSet(file, ctx2d) ==
  IF ctx2d THEN <<[timestamp |-> 0, at |-> 0, file |-> file]>> ELSE <<>>

\* calls without the i-th
WithoutCall(calls, i) ==
  [j \in 1..(Len(calls) - 1) |-> IF j < i THEN calls[j] ELSE calls[j + 1]]

\* handleVideoUpload after its await, for a call whose extraction resolved:
\* setVideoFrames(frames), then the finally block
ExtractionResolved ==
  /\ \E i \in 1..Len(uploads.calls), ctx2d \in BOOLEAN :
       /\ videoFrames' = SampleSet(uploads.calls[i], ctx2d)
       /\ uploads' = [uploads EXCEPT
                        !.framesOf = IF ctx2d THEN uploads.calls[i] ELSE 0,
                        !.calls = WithoutCall(@, i)]
  /\ isProcessingVideo' = FALSE
  /\ UNCHANGED <<assets, duration, renderSession, loggerVars, generationVars,
                 previewVars, samplerCall, errorMsg>>

\* handleVideoUpload after its await, for a call whose extraction rejected:
\* the catch block, then the finally block
ExtractionRejected ==
  /\ \E i \in 1..Len(uploads.calls) :
       uploads' = [uploads EXCEPT !.calls = WithoutCall(@, i)]
  /\ errorMsg' = "Failed to process video file"
  /\ isProcessingVideo' = FALSE
  /\ UNCHANGED <<assets, duration, renderSession, loggerVars, generationVars,
                 previewVars, samplerCall, videoFrames>>

UploadNext ==
  \/ PickVideo
  \/ ExtractionResolved
  \/ ExtractionRejected

UploadSpec == Init /\ [][UploadNext]_vars

SamplerNext ==
  \/ ExtractFrames
  \/ HandleVideoUpload
  \/ OnLoadedMetadata
  \/ OnSeeked
  \/ VideoOnError
  \/ UploadSettled

SamplerSpec == Init /\ [][SamplerNext]_vars

\* The same under the host's guarantees: a source that does not fail
\* delivers its metadata, and a seek that was asked for completes.
SamplerLiveSpec ==
  /\ Init
  /\ [][SamplerNext]_vars
  /\ WF_vars(OnLoadedMetadata)
  /\ WF_vars(OnSeeked)

\* ---------------------------------------------------------- the log registry
\* The listener functions a caller may pass to subscribeToLogs
Listeners == {"f", "g"}

\* Array.prototype.indexOf: the 0-based index of the first element that is
\* x, or -1
IndexOf(s, x) ==
  IF \E i \in 1..Len(s) : s[i] = x
  THEN (CHOOSE i \in 1..Len(s) : s[i] = x /\ \A j \in 1..(i - 1) : s[j] # x) - 1
  ELSE -1

\* listeners.splice(index, 1)
Splice(s, index) ==
  [i \in 1..(Len(s) - 1) |-> IF i <= index THEN s[i] ELSE s[i + 1]]

\* The handle subscribeToLogs returns, for the listener it closed over:
\* index = listeners.indexOf(listener); if (index > -1) splice(index, 1)
Unsubscribe(s, listener) ==
  IF IndexOf(s, listener) > -1 THEN Splice(s, IndexOf(s, listener)) ELSE s

\* listeners.forEach visits index only if the array still has it
ForEachPresent(s, index) == index < Len(s)

\* The listeners of the subscriptions whose handle has not been called, in
\* subscription order
LiveListeners(subs) ==
  LET RECURSIVE Live(_)
      Live(t) == IF t = <<>> THEN <<>>
                 ELSE IF Head(t).live THEN <<Head(t).listener>> \o Live(Tail(t))
                 ELSE Live(Tail(t))
  IN Live(subs)

\* subscribeToLogs(listener): push, and return the handle
SubscribeToLogs ==
  /\ ~registry.dispatch.active
  /\ Len(registry.subscriptions) < MaxSubs
  /\ \E l \in Listeners :
       /\ listeners' = Append(listeners, l)
       /\ registry' =
            [registry EXCEPT !.subscriptions =
               Append(@, [listener |-> l, live |-> TRUE])]
  /\ UNCHANGED <<assets, duration, renderSession, samplerVars, previewVars,
                 generationVars>>

\* a call of the handle of subscription h, outside any addLog
CallUnsubscribe ==
  /\ ~registry.dispatch.active
  /\ \E h \in 1..Len(registry.subscriptions) :
       /\ listeners' = Unsubscribe(listeners, registry.subscriptions[h].listener)
       /\ registry' = [registry EXCEPT !.subscriptions[h].live = FALSE]
  /\ UNCHANGED <<assets, duration, renderSession, samplerVars, previewVars,
                 generationVars>>

\* addLog(message, type) up to its forEach: the entry is built once
AddLog ==
  /\ ~registry.dispatch.active
  /\ registry.logs < MaxLogs
  /\ registry' =
       [registry EXCEPT
          !.logs = @ + 1,
          !.dispatch =
             [active |-> listeners # <<>>,
              entry |-> registry.logs + 1,
              index |-> 0,
              len |-> Len(listeners),
              expected |-> LiveListeners(registry.subscriptions),
              atStart |-> {k \in 1..Len(registry.subscriptions) :
                             registry.subscriptions[k].live},
              delivered |-> <<>>,
              unsubscribed |-> FALSE]]
  /\ UNCHANGED <<assets, duration, renderSession, samplerVars, previewVars,
                 listeners, generationVars>>

\* One step of listeners.forEach(l => l(entry)): the listener at the
\* current index is called with the entry, and may call one of the handles
\* (h = 0: it calls none) before it returns.
ForEachListener ==
  LET d == registry.dispatch
  IN /\ d.active
     /\ IF ForEachPresent(listeners, d.index)
        THEN \E h \in 0..Len(registry.subscriptions) :
               /\ listeners' =
                    IF h = 0 THEN listeners
                    ELSE Unsubscribe(listeners,
                                     registry.subscriptions[h].listener)
               /\ registry' =
                    [registry EXCEPT
                       !.subscriptions =
                          IF h = 0 THEN @ ELSE [@ EXCEPT ![h].live = FALSE],
                       !.dispatch =
                          [d EXCEPT
                             !.delivered =
                                Append(@, [listener |-> listeners[d.index + 1],
                                           entry |-> d.entry]),
                             !.unsubscribed = @ \/ h # 0,
                             !.index = @ + 1,
                             !.active = d.index + 1 < d.len]]
        ELSE /\ registry' =
                  [registry EXCEPT
                     !.dispatch = [d EXCEPT !.index = @ + 1,
                                            !.active = d.index + 1 < d.len]]
             /\ UNCHANGED listeners
     /\ UNCHANGED <<assets, duration, renderSession, samplerVars, previewVars,
                    generationVars>>

LoggerNext ==
  \/ SubscribeToLogs
  \/ CallUnsubscribe
  \/ AddLog
  \/ ForEachListener

LoggerSpec == Init /\ [][LoggerNext]_vars

\* ------------------------------------------------------ handleGenerateContent
\* The kinds of scene a visual plan may ask for
PlanKinds == {"image", "video"}

\* The plans generateVisualPlan may resolve with
Plans == UNION {[1..n -> PlanKinds] : n \in 0..MaxPlan}

\* What an awaited generateAsset(item, platform) may do
AssetOutcomes == {"asset", "null", "throws"}

\* The asset generateAsset resolves with for item i of the given kind
GeneratedAsset(i, kind) ==
  IF kind = "image"
  THEN [item |-> i, fallback |-> FALSE, type |-> "image", base64 |-> TRUE,
        videoUrl |-> FALSE, videoStart |-> 0, videoEnd |-> 0]
  ELSE [item |-> i, fallback |-> FALSE, type |-> "video", base64 |-> FALSE,
        videoUrl |-> FALSE, videoStart |-> 1, videoEnd |-> 3]

\* { type: 'image', base64: generatePlaceholderImage(...), description:
\* item.description + " (Fallback)", prompt: "Fallback" }; the placeholder
\* is "" when the canvas gives no 2D context
PlaceholderAsset(i, ctx2d) ==
  [item |-> i, fallback |-> TRUE, type |-> "image", base64 |-> ctx2d,
   videoUrl |-> FALSE, videoStart |-> 0, videoEnd |-> 0]

\* The loop body that pushes nothing for an item whose generation failed.
PushAssetSkip(list, i, kind, outcome, ctx2d) ==
  IF outcome = "asset" THEN Append(list, GeneratedAsset(i, kind)) ELSE list

\* if (asset) generatedAssets.push(asset) else generatedAssets.push(fallback)
PushAsset(list, i, kind, outcome, ctx2d) ==
  Append(list, IF outcome = "asset" THEN GeneratedAsset(i, kind)
               ELSE PlaceholderAsset(i, ctx2d))

\* generatedAssets.forEach(a => { if (a.type === 'video') a.videoUrl = ... })
AttachVideoUrl(list, demo) ==
  [i \in 1..Len(list) |->
     IF demo /\ list[i].type = "video"
     THEN [list[i] EXCEPT !.videoUrl = TRUE] ELSE list[i]]

\* The VisualAsset the renderer and the preview see in a generated asset
AsVisualAsset(a) ==
  [type |-> a.type, base64 |-> a.base64, videoUrl |-> a.videoUrl,
   videoStart |-> a.videoStart, videoEnd |-> a.videoEnd]

\* The catch block of g's call, entered for the given cause
GenerationFailed(g, cause, message) ==
  /\ errorMsg' = message
  /\ generation' =
       [g EXCEPT !.pc = "failed",
                 !.cause = cause,
                 !.state = IF g.closure.audioBuffer /\ g.closure.assets = <<>>
                           THEN "DONE" ELSE "SCRIPT_REVIEW"]
  /\ UNCHANGED assets

\* What follows the loop of g's call: the URL for video assets, the length
\* check, setAssets and setState(DONE)
GenerationFinish(g) ==
  LET list == AttachVideoUrl(g.generatedAssets, g.demoVideoFile)
  IN IF list = <<>>
     THEN GenerationFailed(g, "empty", "Failed to generate visuals.")
     ELSE /\ assets' = [i \in 1..Len(list) |-> AsVisualAsset(list[i])]
          /\ generation' = [g EXCEPT !.pc = "done", !.state = "DONE",
                                     !.generatedAssets = list]
          /\ UNCHANGED errorMsg

\* handleGenerateContent up to its first await, from the script screen
HandleGenerateContent ==
  /\ generation.pc \in {"idle", "done", "failed"}
  /\ \E demo \in BOOLEAN :
       generation' =
         [NoGeneration EXCEPT
            !.pc = "audio",
            !.state = "GENERATING_AUDIO",
            !.audioBuffer = generation.audioBuffer,
            !.closure = [audioBuffer |-> generation.audioBuffer,
                         assets |-> assets],
            !.demoVideoFile = demo]
  /\ errorMsg' = "null"
  /\ UNCHANGED <<assets, duration, renderSession, loggerVars, previewVars,
                 samplerCall, isProcessingVideo, videoFrames, uploads>>

\* the awaited generateVoiceover settles
VoiceoverSettled ==
  /\ generation.pc = "audio"
  /\ \/ /\ \E d \in Durations : duration' = d
        /\ generation' = [generation EXCEPT !.pc = "plan",
                                            !.audioBuffer = TRUE,
                                            !.state = "GENERATING_VISUALS"]
        /\ UNCHANGED <<assets, errorMsg>>
     \/ /\ GenerationFailed(generation, "voiceover",
                            "Failed to generate content.")
        /\ UNCHANGED duration
  /\ UNCHANGED <<renderSession, loggerVars, previewVars, samplerCall,
                 isProcessingVideo, videoFrames, uploads>>

\* the awaited generateVisualPlan settles
PlanSettled ==
  /\ generation.pc = "plan"
  /\ \/ \E plan \in Plans :
          LET g == [generation EXCEPT !.plan = plan]
          IN IF plan = <<>>
             THEN GenerationFinish(g)
             ELSE /\ generation' = [g EXCEPT !.pc = "asset", !.index = 0]
                  /\ UNCHANGED <<assets, errorMsg>>
     \/ GenerationFailed(generation, "plan", "Failed to generate content.")
  /\ UNCHANGED <<duration, renderSession, loggerVars, previewVars,
                 samplerCall, isProcessingVideo, videoFrames, uploads>>

\* The awaited generateAsset of the item at index settles and the rest of
\* the loop body runs: the push, then the delay before the next item or,
\* after the last, what follows the loop.
AssetSettled ==
  /\ generation.pc = "asset"
  /\ \E outcome \in AssetOutcomes, ctx2d \in BOOLEAN :
       LET i == generation.index + 1
           g == [generation EXCEPT
                   !.outcomes = Append(@, outcome),
                   !.generatedAssets =
                      PushAsset(@, i, generation.plan[i], outcome, ctx2d)]
       IN /\ outcome = "asset" => ctx2d
          /\ IF generation.index < Len(generation.plan) - 1
             THEN /\ generation' = [g EXCEPT !.pc = "delay"]
                  /\ UNCHANGED <<assets, errorMsg>>
             ELSE GenerationFinish(g)
  /\ UNCHANGED <<duration, renderSession, loggerVars, previewVars,
                 samplerCall, isProcessingVideo, videoFrames, uploads>>

\* the 5-second timer between two items fires
DelayElapsed ==
  /\ generation.pc = "delay"
  /\ generation' = [generation EXCEPT !.pc = "asset", !.index = @ + 1]
  /\ UNCHANGED <<assets, duration, renderSession, loggerVars, previewVars,
                 samplerVars>>

GenerationNext ==
  \/ HandleGenerateContent
  \/ VoiceoverSettled
  \/ PlanSettled
  \/ AssetSettled
  \/ DelayElapsed

GenerationSpec == Init /\ [][GenerationNext]_vars

\* ------------------------------------------------------ the looping preview
\* The index without `% assets.length`.
PreviewIndexNoWrap(elapsed, n, dur) == (elapsed * n) \div dur

\* Math.floor(elapsed / sceneDuration) % assets.length

PreviewIndex(elapsed, n, dur) == ((elapsed * n) \div dur) % n

\* asset.videoEnd || 10
PreviewVEnd(asset) ==
  IF asset.videoEnd # 0 THEN asset.videoEnd ELSE PreviewDefaultEnd

\* (asset.videoStart || 0) + (timeInScene % clipDuration), as a fraction over n
PreviewTargetTime(asset, elapsed, n, dur) ==
  LET timeInSceneN == (elapsed * n) % dur
      clipDurationN == (PreviewVEnd(asset) - VStart(asset)) * n
  IN [num |-> VStart(asset) * n + (timeInSceneN % clipDurationN), den |-> n]

\* Math.abs(videoPreviewRef.current.currentTime - targetTime) > 0.5
PreviewDrifted(cur, target) ==
  Abs(cur.num * target.den - target.num * cur.den)
    > PreviewTolerance * cur.den * target.den

\* The offset without the reduction modulo the buffer's duration.
ResumeOffsetRaw(pauseTime, dur) == pauseTime

\* pauseTimeRef.current % audioBuffer.duration
ResumeOffset(pauseTime, dur) == pauseTime % dur

\* The body of updateSlideshow as the closure created with playAudio runs it:
\* list is the closure's assets, mounted tells whether videoPreviewRef holds
\* an element (it does on the DONE screen only), now is the audio clock it
\* reads, start is startTimeRef.current, captured the currentAssetIndex of
\* the closure, cur the position the video element reports while it plays.
UpdateSlideshowIn(list, mounted, now, start, captured, cur) ==
  IF list = <<>>
  THEN /\ previewTick' = NoPreviewTick
       /\ UNCHANGED <<currentAssetIndex, previewVideo>>
  ELSE LET elapsed == now - start
           n == Len(list)
           index == PreviewIndex(elapsed, n, duration)
           asset == AssetAt(list, index)
           target == PreviewTargetTime(asset, elapsed, n, duration)
           pos == IF previewVideo.paused THEN previewVideo.currentTime
                  ELSE [num |-> cur, den |-> 1]
       IN /\ currentAssetIndex' =
               IF index # captured THEN index ELSE currentAssetIndex
          /\ IF asset # NoAsset /\ asset.type = "video" /\ mounted
             THEN /\ previewTick' =
                       [elapsed |-> elapsed, index |-> index, video |-> TRUE,
                        pos |-> pos, target |-> target,
                        seeks |-> PreviewDrifted(pos, target)]
                  /\ previewVideo' =
                       [currentTime |->
                          IF PreviewDrifted(pos, target) THEN target ELSE pos,
                        paused |-> FALSE]
             ELSE /\ previewTick' =
                       [elapsed |-> elapsed, index |-> index, video |-> FALSE,
                        pos |-> NoVideoTick.pos, target |-> NoVideoTick.target,
                        seeks |-> FALSE]
                  /\ previewVideo' =
                       IF mounted THEN [previewVideo EXCEPT !.paused = TRUE]
                       ELSE previewVideo

\* updateSlideshow on the DONE screen, where the video element is mounted
\* and the closure's asset list is the one on display
UpdateSlideshow(now, start, captured, cur) ==
  UpdateSlideshowIn(assets, TRUE, now, start, captured, cur)

\* playAudio, from the play button (rendered only while not playing); steps
\* are the advances of the audio clock the run may observe, up to horizon
PlayAudioOn(steps, horizon) ==
  /\ ~isPlaying
  /\ \E d \in steps, cur \in PreviewPositions :
       /\ previewClock + d <= horizon
       /\ previewClock' = previewClock + d
       /\ startTimeRef' =
            previewClock' - ResumeOffset(pauseTimeRef, duration)
       /\ UpdateSlideshow(previewClock', startTimeRef', currentAssetIndex, cur)
  /\ sourceNode' = "playing"
  /\ isPlaying' = TRUE
  /\ capturedAssetIndex' = currentAssetIndex
  /\ capturedAssets' = assets
  /\ animationFrame' = TRUE
  /\ resumes' = IF sourceNode = "stopped"
                THEN Min(resumes + 1, MaxCycles) ELSE resumes
  /\ UNCHANGED <<assets, duration, renderSession, loggerVars, generationVars, samplerVars, pauseTimeRef,
                 isRendering, renderCalls>>

PlayAudio == PlayAudioOn(0..MaxClockStep, MaxPreviewClock)

\* the requestAnimationFrame callback `loop`; mounted tells whether the DONE
\* screen, with its video element, is on display
LoopIn(mounted, steps, horizon) ==
  /\ animationFrame
  /\ \E d \in steps, cur \in PreviewPositions :
       /\ previewClock + d <= horizon
       /\ previewClock' = previewClock + d
       /\ UpdateSlideshowIn(capturedAssets, mounted, previewClock',
                            startTimeRef, capturedAssetIndex, cur)
  /\ UNCHANGED <<assets, duration, renderSession, loggerVars, generationVars, samplerVars, isPlaying,
                 isRendering, startTimeRef, pauseTimeRef, sourceNode,
                 animationFrame, capturedAssetIndex, capturedAssets, resumes,
                 renderCalls>>

\* `loop` while the DONE screen is on display
LoopOn(steps, horizon) == LoopIn(TRUE, steps, horizon)

Loop == LoopOn(0..MaxClockStep, MaxPreviewClock)

\* pauseAudio
PauseAudio ==
  IF sourceNode # "null"
  THEN /\ sourceNode' = "stopped"
       /\ \E d \in 0..MaxClockStep :
            /\ previewClock + d <= MaxPreviewClock
            /\ previewClock' = previewClock + d
       /\ pauseTimeRef' = previewClock' - startTimeRef
       /\ isPlaying' = FALSE
       /\ animationFrame' = FALSE
       /\ previewVideo' = [previewVideo EXCEPT !.paused = TRUE]
  ELSE UNCHANGED <<sourceNode, previewClock, pauseTimeRef, isPlaying,
                   animationFrame, previewVideo>>

\* The handler behind a download button that is rendered while a render is
\* in flight.
HandleDownloadVideoAlways ==
  /\ assets # <<>>
  /\ isRendering' = TRUE
  /\ renderCalls' = [renderCalls EXCEPT !.inFlight = renderCalls.inFlight + 1]
  /\ IF isPlaying
     THEN PauseAudio
     ELSE UNCHANGED <<sourceNode, previewClock, pauseTimeRef, isPlaying,
                      animationFrame, previewVideo>>
  /\ UNCHANGED <<assets, duration, renderSession, loggerVars, generationVars, samplerVars, startTimeRef,
                 currentAssetIndex, capturedAssetIndex, capturedAssets,
                 previewTick, resumes>>

\* handleDownloadVideo up to its await, from the download button (rendered
\* only while isRendering is false; the update of a click handler is
\* committed before the next click is dispatched).  The renderVideo call it
\* awaits is the session that Spec explores; of it this action keeps
\* isRendering and the count of calls in flight.
HandleDownloadVideo ==
  /\ ~isRendering
  /\ assets # <<>>
  /\ isRendering' = TRUE
  /\ renderCalls' = [renderCalls EXCEPT !.inFlight = renderCalls.inFlight + 1]
  /\ IF isPlaying
     THEN PauseAudio
     ELSE UNCHANGED <<sourceNode, previewClock, pauseTimeRef, isPlaying,
                      animationFrame, previewVideo>>
  /\ UNCHANGED <<assets, duration, renderSession, loggerVars, generationVars, samplerVars, startTimeRef,
                 currentAssetIndex, capturedAssetIndex, capturedAssets,
                 previewTick, resumes>>

\* handleDownloadVideo after its await: a renderVideo call settles, the
\* download or the alert follows, then setIsRendering(false)
DownloadSettled ==
  /\ renderCalls.inFlight > 0
  /\ renderCalls' = [inFlight |-> renderCalls.inFlight - 1, settled |-> TRUE]
  /\ isRendering' = FALSE
  /\ UNCHANGED <<assets, duration, renderSession, loggerVars, generationVars, samplerVars, isPlaying,
                 startTimeRef, pauseTimeRef, sourceNode, animationFrame,
                 currentAssetIndex, capturedAssetIndex, capturedAssets,
                 previewClock,
                 previewVideo, previewTick, resumes>>

\* the DONE screen: narration and assets have been generated
PreviewInit ==
  /\ assets \in PreviewLists
  /\ duration \in Durations
  /\ generation = DoneScreen
  /\ SessionIdle

PreviewNext ==
  \/ PlayAudio
  \/ Loop
  \/ HandleDownloadVideo
  \/ DownloadSettled

PreviewSpec == PreviewInit /\ [][PreviewNext]_vars

\* reset, from the "Start Over" button (rendered on every screen but IDLE)
Reset ==
  /\ generation.state # "IDLE"
  /\ generation' = [generation EXCEPT !.state = "IDLE", !.audioBuffer = FALSE]
  /\ assets' = <<>>
  /\ uploads' = [uploads EXCEPT !.demoVideoFile = 0, !.framesOf = 0]
  /\ videoFrames' = <<>>
  /\ errorMsg' = "null"
  /\ pauseTimeRef' = 0
  /\ UNCHANGED <<duration, renderSession, loggerVars, samplerCall,
                 isProcessingVideo, isPlaying, isRendering, currentAssetIndex,
                 capturedAssetIndex, capturedAssets, startTimeRef, sourceNode,
                 animationFrame, previewClock, previewVideo, previewTick,
                 resumes, renderCalls>>

\* () => setState(AppState.SCRIPT_REVIEW), from the "Edit Script" button of
\* the DONE screen (disabled while a render is in flight)
EditScript ==
  /\ generation.state = "DONE"
  /\ ~isRendering
  /\ generation' = [generation EXCEPT !.state = "SCRIPT_REVIEW"]
  /\ UNCHANGED <<assets, duration, renderSession, loggerVars, samplerVars,
                 previewVars>>

\* the play button of the DONE screen
PlayAudioDone == generation.state = "DONE" /\ PlayAudio

\* `loop`, on whichever screen is on display when the callback fires
LoopAnywhere ==
  LoopIn(generation.state = "DONE", 0..MaxClockStep, MaxPreviewClock)

\* the download button of the DONE screen
HandleDownloadVideoDone == generation.state = "DONE" /\ HandleDownloadVideo

\* A session on the DONE screen that the user may leave
SessionNext ==
  \/ PlayAudioDone
  \/ LoopAnywhere
  \/ HandleDownloadVideoDone
  \/ DownloadSettled
  \/ EditScript
  \/ Reset

SessionSpec == PreviewInit /\ [][SessionNext]_vars

\* The preview of one video scene that lasts 6 s, observed every second or
\* every 2.5 s: long enough for the scene to outlast a default clip.
LongSceneInit ==
  /\ assets \in {<<DefaultClipAsset>>, <<ClipAsset>>}
  /\ duration \in {60}
  /\ generation = DoneScreen
  /\ SessionIdle

PlayAudioLong == PlayAudioOn({0, 10, 25}, 2 * 60)

LoopLong == LoopOn({0, 10, 25}, 2 * 60)

LongSceneNext ==
  \/ PlayAudioLong
  \/ LoopLong

LongSceneSpec == LongSceneInit /\ [][LongSceneNext]_vars

\* ------------------------------------------------------------------ claims
AssetCount == Len(assets)

\* C1 (as stated): for every elapsed in [0, totalDuration] the tick picks a
\* scene index in [0, assetCount-1], and a tick at elapsed = totalDuration
\* exactly picks assetCount-1.
C1_IndexAtEndIsLast ==
  (AssetCount >= 1 /\ tickElapsed \in 0..duration)
    => /\ safeIndex \in 0..(AssetCount - 1)
       /\ tickElapsed = duration => safeIndex = AssetCount - 1

\* C1 (amended): with at least one asset, every tick that observes
\* elapsed < totalDuration picks a scene index in [0, assetCount-1]; a tick
\* that observes elapsed >= totalDuration picks no scene at all (it returns
\* before the index is computed), although the clamped formula evaluated at
\* elapsed = totalDuration is assetCount-1.
C1_IndexInRange ==
  (AssetCount >= 1 /\ tickElapsed >= 0)
    => /\ tickElapsed < duration => safeIndex \in 0..(AssetCount - 1)
       /\ tickElapsed >= duration => safeIndex = NoIndex
       /\ SafeIndex(duration, AssetCount, duration) = AssetCount - 1

C1_Witness ==
  /\ AssetCount >= 2
  /\ tickElapsed = duration
  /\ safeIndex = NoIndex
  /\ timerPending

\* C2: the scene picked by a tick is i exactly when elapsed lies in the
\* half-open window [i*sceneDuration, (i+1)*sceneDuration), so a time on the
\* boundary k*sceneDuration picks scene k; the windows of the n scenes tile
\* [0, totalDuration) (30 s and 3 assets: t=10 picks 1, t=20 picks 2).
C2_HalfOpenWindows ==
  /\ (AssetCount >= 1 /\ safeIndex # NoIndex)
       => /\ safeIndex * duration <= tickElapsed * AssetCount
          /\ tickElapsed * AssetCount < (safeIndex + 1) * duration
          /\ \A i \in 0..(AssetCount - 1) :
               (i * duration <= tickElapsed * AssetCount
                /\ tickElapsed * AssetCount < (i + 1) * duration)
                 => i = safeIndex
  /\ SafeIndex(10, 3, 30) = 1
  /\ SafeIndex(20, 3, 30) = 2

C2_Witness ==
  /\ AssetCount >= 2
  /\ safeIndex \in 1..(AssetCount - 1)
  /\ tickElapsed * AssetCount = safeIndex * duration

C4_ExceptionRejects ==
  threw => promise = "rejected"

\* C5: the session walks Idle -> Loading -> Recording -> Finalizing -> Done
\* (or Failed from Idle) without skipping or repeating a phase: the recorder
\* is started once, stopped once and only after elapsed >= totalDuration was
\* observed, the blob is assembled and the promise resolved only in the stop
\* handler, and no tick runs once Finalizing has begun.
Phase ==
  CASE promise = "none" -> "Idle"
    [] promise = "rejected" -> "Failed"
    [] promise = "resolved" -> "Done"
    [] recorder = "inactive" -> "Loading"
    [] recorder = "recording" /\ timer = -1 -> "Recording"
    [] OTHER -> "Finalizing"

PhaseEdges ==
  {<<"Idle", "Loading">>, <<"Idle", "Failed">>, <<"Loading", "Recording">>,
   <<"Recording", "Finalizing">>, <<"Finalizing", "Done">>}

C5_PhaseState ==
  /\ recorderStarts <= 1
  /\ recorderStops <= 1
  /\ recorderStarts = 1 <=> Phase \in {"Recording", "Finalizing", "Done"}
  /\ recorderStops = 1 => (tickElapsed >= duration /\ Phase \in {"Finalizing", "Done"})
  /\ blob # NoBlob <=> recorder = "stopped"
  /\ promise = "resolved" <=> recorder = "stopped"
  /\ Phase \in {"Finalizing", "Done"} => ~rafPending

C5_PhaseStep ==
  /\ Phase' # Phase => <<Phase, Phase'>> \in PhaseEdges
  /\ Phase \in {"Finalizing", "Done"} =>
       UNCHANGED <<tickElapsed, progress, canvasOp, safeIndex>>
  /\ (promise' = "resolved" /\ promise # "resolved") => recorder = "stopEvent"

C5_PhaseOrder == [](C5_PhaseState) /\ [][C5_PhaseStep]_vars

C5_Witness ==
  /\ Phase = "Done"
  /\ recorderStarts = 1
  /\ recorderStops = 1
  /\ blob # NoBlob

\* C6: the recorder, the audio source and the first tick start only when
\* every image decode has settled, by load or by error; an image that fails
\* does not fail the render.
DecodeFailed(i) ==
  assets[i].type = "image" /\ assets[i].base64 /\ loadedImages[i] = "null"

C6_LoadingBarrier ==
  /\ (recorderStarts > 0 \/ source = "started" \/ tickElapsed >= 0)
       => \A i \in 1..Len(loadedImages) : loadedImages[i] \in {"img", "null"}
  /\ (\E i \in 1..Len(loadedImages) : DecodeFailed(i)) => promise # "rejected"

C6_Witness ==
  /\ recorder = "recording"
  /\ \E i, j \in 1..Len(loadedImages) :
       DecodeFailed(i) /\ loadedImages[j] = "img" /\ i < j

\* C7: after a tick has observed elapsed >= totalDuration the recorder is
\* stopped at most once and not before 500 ms have passed; it keeps
\* recording during the delay and every non-empty chunk delivered in that
\* time is part of the blob.
InBlob(d) == \E k \in 1..Len(blob) : blob[k] = d

C7_SettleDelay ==
  /\ recorderStops <= 1
  /\ recorderStops = 1 => (timer >= SettleDelay /\ tickElapsed >= duration)
  /\ timerPending => recorder = "recording"
  /\ blob # NoBlob =>
       \A i \in 1..Len(delivered) : delivered[i].size > 0 => InBlob(delivered[i])

C7_Witness ==
  /\ blob # NoBlob
  /\ recorderStops = 1
  /\ \E i \in 1..Len(delivered) :
       /\ delivered[i].settling
       /\ ~delivered[i].final
       /\ delivered[i].size > 0
       /\ InBlob(delivered[i])

\* C8: the values passed to onProgress lie in [0, 100] and never decrease,
\* and the value reported by the tick that starts finalization is 100.
C8_ProgressRange ==
  /\ progress # NoProgress =>
       (0 <= progress.num /\ progress.num <= 100 * progress.den /\ progress.den > 0)
  /\ timer >= 0 => progress.num = 100 * progress.den

C8_ProgressStep ==
  (progress # NoProgress) => Leq(progress, progress')

C8_ProgressMonotone == [](C8_ProgressRange) /\ [][C8_ProgressStep]_vars

C8_Witness ==
  /\ timer >= 0
  /\ tickElapsed > duration
  /\ progress.num = 100 * progress.den

C10_NoContextRejects ==
  ctx = "null"
    => /\ promise = "rejected"
       /\ rejectReason = "Could not get canvas context"
       /\ audioContext = "none"
       /\ source = "none"
       /\ recorder = "none"
       /\ videoEl = "none"
       /\ loadedImages = <<>>
       /\ ~rafPending
       /\ tickElapsed = -1

C10_Witness ==
  /\ ctx = "null"
  /\ promise = "rejected"
  /\ \E i \in 1..Len(assets) : assets[i].type = "image" /\ assets[i].base64

C12_TargetInWindow ==
  /\ tickVideo # NoVideoTick
       => LET asset == AssetAt(assets, safeIndex)
              n == AssetCount
              clipLenN == (VEnd(asset) - VStart(asset)) * n
              target == tickVideo.target
          IN /\ target.den = n
             /\ target.num = VStart(asset) * n
                               + (((tickElapsed * n) % duration) % clipLenN)
             /\ VStart(asset) * n <= target.num
             /\ target.num < VEnd(asset) * n
  /\ LET starts == {e \in 0..(SceneB.duration - 1) :
                      TargetTime(SceneB.asset, e, 1, SceneB.duration)
                        = [num |-> SceneB.asset.videoStart, den |-> 1]}
     IN starts = {0, 30, 60}

C12_Witness ==
  /\ assets = <<SceneB.asset>>
  /\ tickElapsed = 60
  /\ tickVideo # NoVideoTick
  /\ tickVideo.target = [num |-> 20, den |-> 1]

\* C17: the blob's MIME type is the first entry of the priority list
\* video/mp4, video/webm;codecs=h264, video/webm;codecs=vp9, video/webm that
\* the host supports, video/webm when it supports none, and it is the type
\* the recorder was configured with.
C17_MimeNegotiated ==
  selectedMimeType # "none"
    => /\ \A j \in 1..Len(MimeTypes) :
            (MimeTypes[j] \in host
               /\ \A k \in 1..(j - 1) : MimeTypes[k] \notin host)
              => selectedMimeType = MimeTypes[j]
       /\ (\A j \in 1..Len(MimeTypes) : MimeTypes[j] \notin host)
            => selectedMimeType = "video/webm"
       /\ recorderMimeType = selectedMimeType
       /\ promise = "resolved" => blobType = recorderMimeType
       /\ blobType \in {"none", recorderMimeType}

C17_Witness ==
  /\ promise = "resolved"
  /\ host = {"video/webm;codecs=h264", "video/webm"}
  /\ blobType = "video/webm;codecs=h264"

\* C18: cover fit.  The drawn rectangle keeps the source's proportions, is at
\* least as wide and as high as the canvas with equality on one axis, and is
\* centred (its x is canvas.width / 2 minus half its width, never positive;
\* y likewise); the image branch and the video branch compute the same
\* rectangle for the same source size.
C18_CoverFit ==
  canvasRect # NoRect
    => LET w == canvasRect.src[1]
           h == canvasRect.src[2]
           r == canvasRect.rect
           W == canvas.width
           H == canvas.height
       IN /\ r.w.den > 0 /\ r.h.den > 0 /\ r.x.den > 0 /\ r.y.den > 0
          /\ r.w.num >= W * r.w.den
          /\ r.h.num >= H * r.h.den
          /\ r.w.num = W * r.w.den \/ r.h.num = H * r.h.den
          /\ r.w.num * r.h.den * h = r.h.num * r.w.den * w
          /\ 2 * r.x.num * r.w.den = (W * r.w.den - r.w.num) * r.x.den
          /\ 2 * r.y.num * r.h.den = (H * r.h.den - r.h.num) * r.y.den
          /\ r.x.num <= 0
          /\ r.y.num <= 0
          /\ r = CoverFitImage(w, h, canvas)
          /\ r = CoverFitVideo(w, h, canvas)

C18_Witness ==
  /\ canvasOp = "video"
  /\ canvas = Canvas(FALSE)
  /\ canvasRect.src = <<16, 9>>
  /\ canvasRect.rect.x.num < 0
  /\ canvasRect.rect.y.num = 0

\* C13: a tick whose active asset has no drawable visual (an image whose
\* decode failed, a video that is not ready or reports no size) paints the
\* background fill only, raises no error and schedules the next tick.
C13_FallbackTick ==
  (AssetCount >= 1 /\ tickElapsed >= 0 /\ tickElapsed < duration
     /\ canvasOp = "fill")
    => /\ ~threw
       /\ rafPending
       /\ canvasRect = NoRect
       /\ promise # "rejected"

C13_Witness ==
  /\ assets = <<ImageAsset>>
  /\ loadedImages = <<"null">>
  /\ canvasOp = "fill"
  /\ promise = "resolved"
  /\ blob # NoBlob

\* C14: extractFramesFromVideo on a source of duration D with step S > 0
\* resolves with exactly ceil(D / S) frames, the k-th (from 0) stamped
\* round(k * S).
C14_FrameCount ==
  samplerPromise = "resolved"
    => /\ Len(samplerResult)
            = (videoDuration + intervalSeconds - 1) \div intervalSeconds
       /\ \A k \in 1..Len(samplerResult) :
            samplerResult[k].timestamp
              = ((k - 1) * intervalSeconds + 5) \div 10

\* C15: once the sampler's promise is settled, by success, by a capture
\* error inside the loop or by a source error, the object URL is released.
C15_UrlReleased ==
  samplerPromise \in {"resolved", "rejected"} => videoUrl = "revoked"

C15_Witness ==
  /\ samplerPromise = "rejected"
  /\ videoError
  /\ Len(frames) >= 1
  /\ videoUrl = "revoked"

\* C16: the sampler is all-or-nothing: after a capture or source error the
\* caller holds a rejection, and a list the promise resolves with (and that
\* the caller stores) covers the whole duration.
C16_AllOrNothing ==
  /\ (videoError \/ captureThrew) => samplerPromise = "rejected"
  /\ samplerPromise = "resolved"
       => Len(samplerResult) * intervalSeconds >= videoDuration
  /\ videoFrames # <<>>
       => Len(videoFrames) * intervalSeconds >= videoDuration

\* C19: playAudio after a pause at elapsed time e starts the preview at
\* elapsed = e mod totalDuration, however long the pause lasted; the scene
\* index and the video target time of its first update are those of the
\* moment of the pause; this holds for every pause/resume cycle.
C19_ResumeStep ==
  (~isPlaying /\ isPlaying' /\ sourceNode = "stopped")
    => /\ previewClock' - startTimeRef' = pauseTimeRef % duration
       /\ assets # <<>>
            => LET n == Len(assets)
                   indexAtPause == ((pauseTimeRef * n) \div duration) % n
                   assetAtPause == AssetAt(assets, indexAtPause)
               IN /\ previewTick'.elapsed = pauseTimeRef % duration
                  /\ previewTick'.index = indexAtPause
                  /\ previewTick'.video = (assetAtPause.type = "video")
                  /\ previewTick'.video
                       => previewTick'.target
                            = PreviewTargetTime(assetAtPause, pauseTimeRef,
                                                n, duration)

C19_PauseResume == [][C19_ResumeStep]_vars

C19_Witness ==
  /\ resumes >= 2
  /\ isPlaying
  /\ pauseTimeRef >= duration
  /\ previewTick.video
  /\ previewTick.elapsed = pauseTimeRef % duration

\* C20: in the looping preview, for every elapsed >= 0 the scene index
\* floor(elapsed / sceneDuration) mod assetCount lies in [0, assetCount - 1]
\* and is the scene the render path selects for elapsed mod totalDuration.
C20_LoopingIndex ==
  previewTick # NoPreviewTick
    => LET n == Len(assets)
           e == previewTick.elapsed
           i == previewTick.index
       IN /\ e >= 0
          /\ i \in 0..(n - 1)
          /\ i * duration <= (e % duration) * n
          /\ (e % duration) * n < (i + 1) * duration
          /\ i = SafeIndex(e % duration, n, duration)

C20_Witness ==
  /\ Len(assets) = 2
  /\ previewTick.elapsed >= duration
  /\ previewTick.index = 1

\* C21: for the same video asset and the same elapsed time the preview
\* (updateSlideshow) and the recorder (renderVideo) compute the same target
\* time in the clip, also when videoEnd is unset and the clip end defaults.
C21_SameTarget ==
  (previewTick # NoPreviewTick /\ previewTick.video
     /\ previewTick.elapsed < duration)
    => LET asset == AssetAt(assets, previewTick.index)
           rendered == TargetTime(asset, previewTick.elapsed, Len(assets),
                                  duration)
       IN previewTick.target.num * rendered.den
            = rendered.num * previewTick.target.den

\* C22: within one render tick, when the video branch issues a re-seek the
\* frame is drawn only after that seek has completed; with no re-seek the
\* frame is drawn at once.
C22_DrawAfterSeek ==
  (tickVideo # NoVideoTick /\ canvasOp = "video") => ~tickVideo.seeking

\* C23: render ticks are strictly sequential: a tick whose elapsed time is
\* below the total duration leaves exactly one next tick scheduled after its
\* draw, a tick at or past the total duration leaves none, and no tick is
\* scheduled before the first one ran.
C23_OneNextTick ==
  /\ (tickElapsed >= 0 /\ tickElapsed < duration) => rafPending
  /\ (tickElapsed = -1 \/ tickElapsed >= duration) => ~rafPending

\* C24: the sampler's seeks are strictly sequential: at most one seek is
\* outstanding and at most one 'seeked' listener is registered at any time,
\* while the loop waits exactly its own seek is outstanding, and frame k
\* (from 0) shows the source at k * S, the position whose seek completed
\* before the capture.
C24_SequentialSeeks ==
  /\ samplerVideo.onSeek <= 1
  /\ samplerVideo.seeking <= 1
  /\ samplerPc = "seeking"
       => /\ samplerVideo.seeking = 1
          /\ samplerVideo.onSeek = 1
          /\ samplerVideo.target = samplerTime
  /\ samplerPc = "done" /\ ~videoError => samplerVideo.onSeek = 0
  /\ \A k \in 1..Len(frames) : frames[k].at = (k - 1) * intervalSeconds

C24_Witness ==
  /\ Len(frames) >= 2
  /\ samplerPc = "seeking"
  /\ samplerVideo.onSeek = 1
  /\ samplerVideo.currentTime = intervalSeconds
  /\ samplerVideo.target = 2 * intervalSeconds

\* C25: extractFramesFromVideo terminates: with a finite duration and a step
\* S > 0, when every seek eventually completes or the source errors, the
\* promise eventually settles, and it does so after finitely many seeks (no
\* seek is asked for at or past the duration).
C25_Terminates ==
  /\ (samplerPromise = "pending")
       ~> (samplerPromise \in {"resolved", "rejected"})
  /\ [](samplerPc = "seeking"
          => /\ samplerVideo.target < videoDuration
             /\ samplerVideo.target = samplerTime
             /\ samplerTime % intervalSeconds = 0)

C25_Witness ==
  /\ samplerPromise = "resolved"
  /\ samplerVideo.currentTime > 0
  /\ samplerVideo.currentTime + intervalSeconds >= videoDuration
  /\ samplerVideo.seeking = 0

\* The listeners a finished forEach called, in call order
DeliveredListeners ==
  [i \in 1..Len(registry.dispatch.delivered)
     |-> registry.dispatch.delivered[i].listener]

\* C26: in handleGenerateContent every item of the visual plan yields
\* exactly one asset, in plan order: the generated asset when generation
\* succeeds, an image placeholder when it throws or returns nothing; no
\* per-item failure aborts the loop, and the list the call stores has the
\* length and the order of the plan.
C26_OneAssetPerItem ==
  LET g == generation
      done == IF g.pc = "asset" THEN g.index
              ELSE IF g.pc = "delay" THEN g.index + 1
              ELSE IF g.pc \in {"done", "failed"} /\ g.cause \in {"none", "empty"}
              THEN Len(g.plan)
              ELSE 0
  IN /\ Len(g.generatedAssets) = done
     /\ Len(g.outcomes) = done
     /\ \A i \in 1..Len(g.generatedAssets) :
          /\ g.generatedAssets[i].item = i
          /\ g.outcomes[i] = "asset"
               => /\ ~g.generatedAssets[i].fallback
                  /\ g.generatedAssets[i].type = g.plan[i]
          /\ g.outcomes[i] # "asset"
               => /\ g.generatedAssets[i].fallback
                  /\ g.generatedAssets[i].type = "image"
     /\ g.pc = "failed" => g.cause \in {"voiceover", "plan", "empty"}
     /\ g.cause = "empty" => g.plan = <<>>
     /\ g.pc = "done"
          => /\ Len(assets) = Len(g.plan)
             /\ \A i \in 1..Len(assets) :
                  assets[i].type = g.generatedAssets[i].type

C26_Witness ==
  /\ generation.pc = "done"
  /\ Len(assets) = Len(generation.plan)
  /\ Len(generation.plan) >= 2
  /\ generation.outcomes[1] = "throws"
  /\ generation.plan[1] = "video"
  /\ assets[1].type = "image"
  /\ generation.outcomes[2] = "asset"

\* C27: an addLog call invokes every listener subscribed at the time of the
\* call exactly once per subscription, in subscription order and with the
\* same entry; a listener whose handle has been called is invoked by no
\* later addLog.  (Stated for calls during which no handle is called.)
C27_Delivery ==
  LET d == registry.dispatch
  IN (d.entry > 0 /\ ~d.active /\ ~d.unsubscribed)
       => /\ DeliveredListeners = d.expected
          /\ \A i \in 1..Len(d.delivered) : d.delivered[i].entry = d.entry

\* C28: an unsubscribe handle removes only the subscription that created it
\* and is idempotent, also when the same listener function is subscribed
\* more than once: the array always holds the listeners of the
\* subscriptions whose handle was never called, in subscription order.
C28_OwnSubscriptionOnly ==
  listeners = LiveListeners(registry.subscriptions)

\* C29: when a listener calls an unsubscribe handle while addLog dispatches
\* an entry, every other listener that was subscribed when addLog started
\* and has not itself been unsubscribed still receives the entry exactly
\* once.  (Stated for registries in which no function is subscribed twice.)
C29_UnsubscribeDuringDispatch ==
  LET d == registry.dispatch
      subs == registry.subscriptions
      distinct == \A j, k \in 1..Len(subs) :
                    subs[j].listener = subs[k].listener => j = k
  IN (d.entry > 0 /\ ~d.active /\ d.unsubscribed /\ distinct)
       => \A k \in d.atStart :
            subs[k].live
              => Cardinality({i \in 1..Len(d.delivered) :
                                d.delivered[i].listener = subs[k].listener}) = 1

\* C30: at most one render session is in flight at any time:
\* handleDownloadVideo starts no second renderVideo call while an earlier one
\* has not settled, and isRendering is true exactly while a call is in
\* flight, so it is false again after every render outcome.
C30_OneRender ==
  /\ renderCalls.inFlight <= 1
  /\ isRendering <=> renderCalls.inFlight = 1

C30_Witness ==
  /\ renderCalls.settled
  /\ renderCalls.inFlight = 1
  /\ isRendering
  /\ sourceNode = "stopped"

\* C31: preview playback is confined to its session: whenever the DONE
\* screen is not on display (after reset or Edit Script) the looping audio
\* source is stopped, no updateSlideshow tick is scheduled and isPlaying is
\* false, and a running preview's asset list is the list on display.
C31_PreviewConfined ==
  /\ generation.state # "DONE"
       => /\ sourceNode # "playing"
          /\ ~animationFrame
          /\ ~isPlaying
  /\ animationFrame => capturedAssets = assets

\* C32: whenever no video upload is being processed (isProcessingVideo is
\* false), the stored videoFrames are empty or the complete sample set of
\* the file demoVideoFile holds, also when a second upload starts before
\* the first extraction has finished and when an extraction fails after an
\* earlier one succeeded.
C32_FramesOfStoredFile ==
  ~isProcessingVideo
    => \/ videoFrames = <<>>
       \/ /\ uploads.demoVideoFile # 0
          /\ videoFrames = SampleSet(uploads.demoVideoFile, TRUE)

TypeOK ==
  /\ promise \in {"none", "pending", "resolved", "rejected"}
  /\ audioContext \in {"none", "running", "closed"}
  /\ source \in {"none", "connected", "started", "disconnected"}
  /\ recorder \in {"none", "inactive", "recording", "flushing", "stopEvent", "stopped"}
  /\ videoEl \in {"none", "created", "src", "playing"}
  /\ ctx \in {"none", "2d", "null"}
  /\ canvasOp \in {"none", "fill", "image", "video"}
  /\ Len(loadedImages) \in {0, Len(assets)}
  /\ safeIndex \in {NoIndex} \cup (-1..MaxAssets)
  /\ seeks \in BOOLEAN
  /\ selectedMimeType \in {"none"} \cup {MimeTypes[i] : i \in 1..Len(MimeTypes)}
  /\ blobType \in {"none", selectedMimeType}
  /\ samplerPromise \in {"none", "pending", "resolved", "rejected"}
  /\ samplerPc \in {"none", "loading", "seeking", "done"}
  /\ videoUrl \in {"none", "blob", "revoked"}
  /\ sourceNode \in {"null", "playing", "stopped"}
  /\ isPlaying \in BOOLEAN
  /\ isRendering \in BOOLEAN
  /\ resumes \in 0..MaxCycles
  /\ renderCalls.inFlight \in 0..1
  /\ samplerVideo.seeking \in 0..1
  /\ Len(listeners) <= MaxSubs
  /\ Len(registry.subscriptions) <= MaxSubs
  /\ registry.logs \in 0..MaxLogs
  /\ generation.pc \in {"idle", "audio", "plan", "asset", "delay", "done", "failed"}
  /\ Len(generation.plan) <= MaxPlan
  /\ generation.state \in {"IDLE", "SCRIPT_REVIEW", "GENERATING_AUDIO",
                          "GENERATING_VISUALS", "DONE"}
  /\ uploads.started \in 0..MaxUploads
  /\ Len(uploads.calls) <= uploads.started
  /\ uploads.demoVideoFile \in 0..MaxUploads

====
